---- MODULE Spec2Model ----
(***************************************************************************)
(* Model of src/app.py: the quadrant classifier compute_quadrant and the   *)
(* greedy day planner generate_schedule.                                   *)
(*                                                                         *)
(* Dates are proleptic ordinals (date.toordinal()), a time of day is a     *)
(* record [hour, minute], a datetime is the number of minutes since the    *)
(* start of ordinal day 0.  A Python float is an exact binary64 value      *)
(* [neg, m, e] = (-1)^neg * m * 2^e with the mantissa m kept as a sequence *)
(* of bits, least significant first, so that every float operation of the  *)
(* source rounds as IEEE 754 does.  A task's title is carried nowhere in   *)
(* the decisions of the code and is left out of the task record.           *)
(***************************************************************************)
EXTENDS Integers, Sequences, FiniteSets, TLC

VARIABLES
    pc,                   \* position in the call being modelled
    tasks,                \* argument: the task list
    tomorrow,             \* argument: the reference date (ordinal)
    blocks,               \* argument: list of <<start time, end time>>
    importance_threshold, \* argument
    urgent_days,          \* argument
    buffer_ratio,         \* argument, in hundredths: the float nearest buffer_ratio/100
    ensure_q2,            \* argument
    todo,                 \* local of generate_schedule
    segments,             \* local: list of <<s_dt, e_dt>>
    total_available,      \* local
    sched_limit,          \* local
    enriched,             \* local: list of [t, q, d]
    ordered,              \* local: placement order, list of [t, q, d]
    pos,                  \* index in ordered of the next task of the for loop
    used,                 \* local
    seg_idx,              \* local
    cursor,               \* local
    schedule,             \* local / returned
    overflow,             \* local / returned
    quad_map,             \* returned
    meta,                 \* returned
    quadrant              \* value returned by a direct compute_quadrant call

vars == <<pc, tasks, tomorrow, blocks, importance_threshold, urgent_days,
          buffer_ratio, ensure_q2, todo, segments, total_available,
          sched_limit, enriched, ordered, pos, used, seg_idx, cursor,
          schedule, overflow, quad_map, meta, quadrant>>

(***************************************************************************)
(* Program constants                                                       *)
(***************************************************************************)
IMPORTANCE_THRESHOLD == 4
URGENT_DAYS == 1
BUFFER_RATIO == 20          \* 0.20, in hundredths
ENSURE_Q2 == 1
NO_DUE_KEY == 1000000000    \* 10**9, the sort key of a task without due date
MANTISSA_BITS == 53         \* precision of a Python float (binary64)

Q1 == "Q1"
Q2 == "Q2"
Q3 == "Q3"
Q4 == "Q4"
Quadrants == <<Q1, Q2, Q3, Q4>>

None == <<>>                \* an absent due date; a present one is <<ordinal>>

(***************************************************************************)
(* Generic helpers                                                         *)
(***************************************************************************)
Max(a, b) == IF a >= b THEN a ELSE b

SeqsUpTo(S, n) == UNION {[1..k -> S] : k \in 0..n}

RECURSIVE Sum(_)
Sum(s) == IF s = <<>> THEN 0 ELSE Head(s) + Sum(Tail(s))

(***************************************************************************)
(* binary64 arithmetic.  A magnitude is a sequence of base-256 digits,     *)
(* least significant first; a float is [neg, m, e] = (-1)^neg * m * 2^e.   *)
(***************************************************************************)
RECURSIVE Pow2(_)
Pow2(k) == IF k = 0 THEN 1 ELSE 2 * Pow2(k - 1)

RECURSIVE DigitsOfNat(_)
DigitsOfNat(n) ==
    IF n = 0 THEN <<>> ELSE <<n % 256>> \o DigitsOfNat(n \div 256)

RECURSIVE NatOfDigits(_)
NatOfDigits(b) ==
    IF b = <<>> THEN 0 ELSE Head(b) + 256 * NatOfDigits(Tail(b))

Zeros(k) == [i \in 1..k |-> 0]

\* drop the zero digits at the most significant end
RECURSIVE Trim(_)
Trim(b) ==
    IF b = <<>> THEN <<>>
    ELSE IF b[Len(b)] = 0 THEN Trim(SubSeq(b, 1, Len(b) - 1)) ELSE b

\* number of bits of a natural below 256
RECURSIVE BitLenNat(_)
BitLenNat(n) == IF n = 0 THEN 0 ELSE 1 + BitLenNat(n \div 2)

\* number of bits of a trimmed magnitude
BitLen(b) ==
    IF b = <<>> THEN 0 ELSE 8 * (Len(b) - 1) + BitLenNat(b[Len(b)])

\* bit i (bit 0 the least significant) of a magnitude
Bit(b, i) ==
    IF i \div 8 + 1 > Len(b) THEN 0
    ELSE (b[i \div 8 + 1] \div Pow2(i % 8)) % 2

\* b + 1
RECURSIVE Inc(_)
Inc(b) ==
    IF b = <<>> THEN <<1>>
    ELSE IF Head(b) < 255 THEN <<Head(b) + 1>> \o Tail(b)
         ELSE <<0>> \o Inc(Tail(b))

\* b * n + carry, for a small natural n
RECURSIVE MulSmall(_, _, _)
MulSmall(b, n, carry) ==
    IF b = <<>> THEN DigitsOfNat(carry)
    ELSE LET v == Head(b) * n + carry
         IN  <<v % 256>> \o MulSmall(Tail(b), n, v \div 256)

\* a - b - borrow for a >= b + borrow
RECURSIVE SubDigits(_, _, _)
SubDigits(a, b, borrow) ==
    IF a = <<>> THEN <<>>
    ELSE LET v == Head(a) - (IF b = <<>> THEN 0 ELSE Head(b)) - borrow
         IN  <<v % 256>> \o SubDigits(Tail(a),
                                      IF b = <<>> THEN <<>> ELSE Tail(b),
                                      IF v < 0 THEN 1 ELSE 0)

\* <<quotient, remainder>> of b divided by a small natural n: long division
\* from the most significant digit down, rem the running remainder and q the
\* quotient digits found so far
RECURSIVE DivSmall(_, _, _, _)
DivSmall(b, n, rem, q) ==
    IF b = <<>> THEN <<q, rem>>
    ELSE LET v == 256 * rem + b[Len(b)]
         IN  DivSmall(SubSeq(b, 1, Len(b) - 1), n, v % n, <<v \div n>> \o q)

\* b * 2^k and floor(b / 2^k)
ShiftLeft(b, k) ==
    IF b = <<>> THEN <<>>
    ELSE Trim(Zeros(k \div 8) \o MulSmall(b, Pow2(k % 8), 0))
ShiftRight(b, k) ==
    IF k \div 8 >= Len(b) THEN <<>>
    ELSE Trim(DivSmall(SubSeq(b, k \div 8 + 1, Len(b)), Pow2(k % 8), 0, <<>>)[1])

\* round-to-nearest, ties-to-even, of the exact magnitude (b + fraction) * 2^e
\* to MANTISSA_BITS bits, where the fraction below b's last bit is nonzero
\* iff sticky
RoundNearestEven(neg, b, e, sticky) ==
    LET t == Trim(b)
        k == BitLen(t) - MANTISSA_BITS
    IN  IF t = <<>> THEN [neg |-> FALSE, m |-> <<>>, e |-> 0]
        ELSE IF k <= 0 THEN [neg |-> neg, m |-> t, e |-> e]
        ELSE LET hi   == ShiftRight(t, k)
                 more == sticky \/ \E i \in 0..(k - 2) : Bit(t, i) = 1
                 up   == Bit(t, k - 1) = 1 /\ (more \/ Bit(t, k) = 1)
             IN  [neg |-> neg, m |-> IF up THEN Inc(hi) ELSE hi, e |-> e + k]

\* float(n) for an int n >= 0
FloatOfInt(n) == RoundNearestEven(FALSE, DigitsOfNat(n), 0, FALSE)

\* the float nearest to p / 100: what a decimal literal such as 0.20 denotes
FloatOfHundredths(p) ==
    LET a  == IF p < 0 THEN -p ELSE p
        qr == DivSmall(Zeros(8) \o DigitsOfNat(a), 100, 0, <<>>)
    IN  RoundNearestEven(p < 0, qr[1], -64, qr[2] # 0)

\* x < y for two trimmed magnitudes
DigitsLess(x, y) ==
    IF Len(x) # Len(y) THEN Len(x) < Len(y)
    ELSE \E i \in 1..Len(x) :
             /\ x[i] < y[i]
             /\ \A j \in (i + 1)..Len(x) : x[j] = y[j]

\* |a| < |b| for two floats
MagLess(a, b) ==
    LET lo == IF a.e < b.e THEN a.e ELSE b.e
    IN  DigitsLess(ShiftLeft(a.m, a.e - lo), ShiftLeft(b.m, b.e - lo))

\* a < b
FloatLess(a, b) ==
    IF a.neg /\ ~b.neg THEN TRUE
    ELSE IF ~a.neg /\ b.neg THEN FALSE
    ELSE IF a.neg THEN MagLess(b, a) ELSE MagLess(a, b)

\* Python's min(a, b) and max(a, b): the first argument unless the second
\* is strictly smaller (larger)
FloatMin(a, b) == IF FloatLess(b, a) THEN b ELSE a
FloatMax(a, b) == IF FloatLess(a, b) THEN b ELSE a

\* a - b for floats a >= b >= 0
FloatSub(a, b) ==
    LET lo == IF a.e < b.e THEN a.e ELSE b.e
    IN  RoundNearestEven(FALSE,
                         SubDigits(ShiftLeft(a.m, a.e - lo),
                                   ShiftLeft(b.m, b.e - lo), 0),
                         lo, FALSE)

\* n * f for an int n >= 0 and a float f >= 0: n converts to float exactly
\* (it is far below 2^53), and the exact product is rounded
IntTimesFloat(n, f) == RoundNearestEven(FALSE, MulSmall(f.m, n, 0), f.e, FALSE)

\* int(f) for a float f >= 0
IntOfFloat(f) ==
    IF f.e >= 0 THEN NatOfDigits(ShiftLeft(f.m, f.e))
    ELSE NatOfDigits(ShiftRight(f.m, -f.e))

(***************************************************************************)
(* Core logic                                                              *)
(***************************************************************************)
\* mutant: the urgency window is counted from the day after the reference date
compute_quadrant_window(task, tm, threshold, udays) ==
    LET important == task.importance >= threshold
        urgent    == IF task.due = None THEN FALSE
                     ELSE task.due[1] <= tm + Max(udays, 0)
    IN  IF important /\ urgent THEN Q1
        ELSE IF important /\ ~urgent THEN Q2
        ELSE IF ~important /\ urgent THEN Q3
        ELSE Q4

compute_quadrant(task, tm, threshold, udays) ==
    LET important == task.importance >= threshold
        urgent    == IF task.due = None THEN FALSE
                     ELSE task.due[1] <= tm + Max(udays - 1, 0)
    IN  IF important /\ urgent THEN Q1
        ELSE IF important /\ ~urgent THEN Q2
        ELSE IF ~important /\ urgent THEN Q3
        ELSE Q4

\* datetimes carry whole minutes only (dt_on drops the seconds)
minutes_between(a_dt, b_dt) == ((b_dt - a_dt) * 60) \div 60

dt_on(day, t) == day * 1440 + t.hour * 60 + t.minute

\* list.sort(key=...): ascending and stable; keys[i] is the key of s[i], a
\* pair compared lexicographically
KeyLess(a, b) == a[1] < b[1] \/ (a[1] = b[1] /\ a[2] < b[2])

SortByKey(s, keys) ==
    LET n       == Len(s)
        rank(i) == Cardinality({j \in 1..n :
                       KeyLess(keys[j], keys[i])
                       \/ (keys[j] = keys[i] /\ j < i)}) + 1
    IN  [p \in 1..n |-> s[CHOOSE i \in 1..n : rank(i) = p]]

\* s[:k] and s[k:] for k >= 0
SliceTo(s, k)   == SubSeq(s, 1, IF k < Len(s) THEN k ELSE Len(s))
SliceFrom(s, k) == SubSeq(s, (IF k < Len(s) THEN k ELSE Len(s)) + 1, Len(s))

IsTodo(t) == t.status = "todo"
Todo(ts) == SelectSeq(ts, IsTodo)

\* the valid segments, in the order of the blocks
ValidBlock(tm, b) == dt_on(tm, b[2]) > dt_on(tm, b[1])
RECURSIVE Segments(_, _)
Segments(tm, bs) ==
    IF bs = <<>> THEN <<>>
    ELSE (IF ValidBlock(tm, Head(bs))
          THEN << <<dt_on(tm, Head(bs)[1]), dt_on(tm, Head(bs)[2])>> >>
          ELSE <<>>) \o Segments(tm, Tail(bs))

TotalAvailable(segs) ==
    Sum([i \in 1..Len(segs) |-> minutes_between(segs[i][1], segs[i][2])])

\* the float literals of line 81
ONE == FloatOfInt(1)
ZERO == FloatOfInt(0)
POINT_EIGHT == FloatOfHundredths(80)

\* int(total_available * (1.0 - max(0.0, min(buffer_ratio, 0.8))))
SchedLimit(total, ratio) ==
    IntOfFloat(IntTimesFloat(total,
        FloatSub(ONE,
                 FloatMax(ZERO,
                          FloatMin(FloatOfHundredths(ratio), POINT_EIGHT)))))

Enriched(td, tm, threshold, udays) ==
    [i \in 1..Len(td) |->
        [t |-> td[i],
         q |-> compute_quadrant(td[i], tm, threshold, udays),
         d |-> IF td[i].due # None THEN td[i].due[1] ELSE NO_DUE_KEY]]

Bucket(en, label) == SelectSeq(en, LAMBDA x : x.q = label)

\* mutant: ties on the due date broken by the lower importance
DueKeysAscending(b) == [i \in 1..Len(b) |-> <<b[i].d, b[i].t.importance>>]

DueKeys(b) == [i \in 1..Len(b) |-> <<b[i].d, -b[i].t.importance>>]
ImportanceKeys(b) == [i \in 1..Len(b) |-> <<-b[i].t.importance, b[i].d>>]

\* mutant: the slices taken at ensure_q2 itself, so that a negative one counts
\* from the end of the bucket as Python slices do
OrderedRawSlice(en, eq2) ==
    LET q1 == SortByKey(Bucket(en, Q1), DueKeys(Bucket(en, Q1)))
        q2 == SortByKey(Bucket(en, Q2), DueKeys(Bucket(en, Q2)))
        q3 == SortByKey(Bucket(en, Q3), DueKeys(Bucket(en, Q3)))
        q4 == SortByKey(Bucket(en, Q4), ImportanceKeys(Bucket(en, Q4)))
        k  == IF eq2 < 0 THEN Max(Len(q2) + eq2, 0) ELSE eq2
        q2_early == SliceTo(q2, Max(0, eq2))
        q2_rest  == SliceFrom(q2, k)
    IN  q1 \o q2_early \o q2_rest \o q3 \o q4

Ordered(en, eq2) ==
    LET q1 == SortByKey(Bucket(en, Q1), DueKeys(Bucket(en, Q1)))
        q2 == SortByKey(Bucket(en, Q2), DueKeys(Bucket(en, Q2)))
        q3 == SortByKey(Bucket(en, Q3), DueKeys(Bucket(en, Q3)))
        q4 == SortByKey(Bucket(en, Q4), ImportanceKeys(Bucket(en, Q4)))
        q2_early == SliceTo(q2, Max(0, eq2))
        q2_rest  == SliceFrom(q2, Max(0, eq2))
    IN  q1 \o q2_early \o q2_rest \o q3 \o q4

\* seg_idx is 0-based as in the source; segs[si + 1] is segments[si]
RECURSIVE move_cursor(_, _, _)
move_cursor(segs, si, cur) ==
    IF si >= Len(segs) THEN [si |-> si, cur |-> cur]
    ELSE LET s    == segs[si + 1][1]
             e    == segs[si + 1][2]
             cur1 == IF cur < s THEN s ELSE cur
         IN  IF cur1 < e THEN [si |-> si, cur |-> cur1]
             ELSE move_cursor(segs, si + 1,
                              IF si + 1 < Len(segs) THEN segs[si + 2][1]
                              ELSE cur1)

\* mutant: a task is placed in the first segment with any time left
RECURSIVE FindRoomAnyTime(_, _, _, _)
FindRoomAnyTime(segs, si, cur, dur) ==
    IF si >= Len(segs) THEN [placed |-> FALSE, si |-> si, cur |-> cur]
    ELSE LET mc == move_cursor(segs, si, cur)
         IN  IF mc.si >= Len(segs)
             THEN [placed |-> FALSE, si |-> mc.si, cur |-> mc.cur]
             ELSE LET remaining == minutes_between(mc.cur, segs[mc.si + 1][2])
                  IN  IF remaining <= 0
                      THEN FindRoomAnyTime(segs, mc.si + 1, mc.cur, dur)
                      ELSE [placed |-> TRUE, si |-> mc.si, cur |-> mc.cur]

\* the while loop that looks for a segment with room for dur minutes
RECURSIVE FindRoom(_, _, _, _)
FindRoom(segs, si, cur, dur) ==
    IF si >= Len(segs) THEN [placed |-> FALSE, si |-> si, cur |-> cur]
    ELSE LET mc == move_cursor(segs, si, cur)
         IN  IF mc.si >= Len(segs)
             THEN [placed |-> FALSE, si |-> mc.si, cur |-> mc.cur]
             ELSE LET remaining == minutes_between(mc.cur, segs[mc.si + 1][2])
                  IN  IF remaining <= 0
                      THEN FindRoom(segs, mc.si + 1, mc.cur, dur)
                      ELSE IF dur <= remaining
                      THEN [placed |-> TRUE, si |-> mc.si, cur |-> mc.cur]
                      ELSE FindRoom(segs, mc.si + 1, mc.cur, dur)

\* mutant: a task that fits the budget and finds no room is dropped
PlaceStepDropsUnplaced(st, item, segs, limit) ==
    LET dur == item.t.duration_min
        r   == FindRoom(segs, st.seg_idx, st.cursor, dur)
    IN  IF st.used + dur > limit
        THEN [st EXCEPT !.overflow = Append(@, item.t)]
        ELSE IF r.placed
        THEN [used     |-> st.used + dur,
              seg_idx  |-> r.si,
              cursor   |-> r.cur + dur,
              schedule |-> Append(st.schedule,
                                  [start    |-> r.cur,
                                   end      |-> r.cur + dur,
                                   quadrant |-> item.q,
                                   task_id  |-> item.t.id]),
              overflow |-> st.overflow]
        ELSE [st EXCEPT !.seg_idx = r.si, !.cursor = r.cur]

\* mutant: the budget test leaves the task's own duration out
PlaceStepBudgetBefore(st, item, segs, limit) ==
    LET dur == item.t.duration_min
        r   == FindRoom(segs, st.seg_idx, st.cursor, dur)
    IN  IF st.used > limit
        THEN [st EXCEPT !.overflow = Append(@, item.t)]
        ELSE IF r.placed
        THEN [used     |-> st.used + dur,
              seg_idx  |-> r.si,
              cursor   |-> r.cur + dur,
              schedule |-> Append(st.schedule,
                                  [start    |-> r.cur,
                                   end      |-> r.cur + dur,
                                   quadrant |-> item.q,
                                   task_id  |-> item.t.id]),
              overflow |-> st.overflow]
        ELSE [st EXCEPT !.seg_idx = r.si, !.cursor = r.cur,
                        !.overflow = Append(@, item.t)]

\* one iteration of the for loop over ordered
PlaceStep(st, item, segs, limit) ==
    LET dur == item.t.duration_min
        r   == FindRoom(segs, st.seg_idx, st.cursor, dur)
    IN  IF st.used + dur > limit
        THEN [st EXCEPT !.overflow = Append(@, item.t)]
        ELSE IF r.placed
        THEN [used     |-> st.used + dur,
              seg_idx  |-> r.si,
              cursor   |-> r.cur + dur,
              schedule |-> Append(st.schedule,
                                  [start    |-> r.cur,
                                   end      |-> r.cur + dur,
                                   quadrant |-> item.q,
                                   task_id  |-> item.t.id]),
              overflow |-> st.overflow]
        ELSE [used     |-> st.used,
              seg_idx  |-> r.si,
              cursor   |-> r.cur,
              schedule |-> st.schedule,
              overflow |-> Append(st.overflow, item.t)]

\* the state of the placement before its first iteration
StartState(segs) ==
    LET mc == move_cursor(segs, 0, segs[1][1])
    IN  [used |-> 0, seg_idx |-> mc.si, cursor |-> mc.cur,
         schedule |-> <<>>, overflow |-> <<>>]

RECURSIVE PlaceAll(_, _, _, _)
PlaceAll(st, ord, segs, limit) ==
    IF ord = <<>> THEN st
    ELSE PlaceAll(PlaceStep(st, Head(ord), segs, limit), Tail(ord), segs, limit)

QuadMap(en) ==
    [label \in {Q1, Q2, Q3, Q4} |->
        LET b == Bucket(en, label) IN [i \in 1..Len(b) |-> b[i].t]]

Meta(total, limit, used_min) ==
    [total_available_min |-> total, sched_limit_min |-> limit,
     used_min |-> used_min]

EmptyDict == <<>>

\* the four values generate_schedule returns
generate_schedule(ts, tm, bs, threshold, udays, ratio, eq2) ==
    LET td    == Todo(ts)
        segs  == Segments(tm, bs)
        total == TotalAvailable(segs)
        limit == SchedLimit(total, ratio)
        en    == Enriched(td, tm, threshold, udays)
        fin   == PlaceAll(StartState(segs), Ordered(en, eq2), segs, limit)
    IN  IF td = <<>>
        THEN [schedule |-> <<>>, quad_map |-> EmptyDict, meta |-> EmptyDict,
              overflow |-> <<>>]
        ELSE IF segs = <<>>
        THEN [schedule |-> <<>>, quad_map |-> EmptyDict, meta |-> EmptyDict,
              overflow |-> td]
        ELSE [schedule |-> fin.schedule, quad_map |-> QuadMap(en),
              meta |-> Meta(total, limit, fin.used), overflow |-> fin.overflow]

(***************************************************************************)
(* Bounds and the inputs the calls are explored on                         *)
(***************************************************************************)
MaxTasks == 2       \* longest task list
MaxBlocks == 2      \* longest block list

ReferenceDays == {10}

Time(h, m) == [hour |-> h, minute |-> m]

\* blocks of the packing inputs: valid, empty (end = start), back to back,
\* nested and overlapping ones, in any order
BlockChoices ==
    {<<s, e>> : s \in {Time(9, 0), Time(9, 30)},
                e \in {Time(9, 30), Time(10, 0)}}

\* packing inputs: important tasks with and without a due date, unimportant
\* ones without, of both durations
PackingShapes(tm) ==
    [duration_min : {30, 60}, importance : {5}, due : {None, <<tm>>},
     status : {"todo"}] \cup
    [duration_min : {30, 60}, importance : {3}, due : {None},
     status : {"todo"}]

\* ordering inputs: every importance around the threshold, due dates before,
\* on and after the reference date, and a task that is done
OrderingShapes(tm) ==
    [duration_min : {30}, importance : {3, 4, 5},
     due : {None, <<tm - 1>>, <<tm>>, <<tm + 1>>}, status : {"todo"}] \cup
    {[duration_min |-> 30, importance |-> 5, due |-> <<tm>>, status |-> "done"]}

\* ids are unique (uuid4 in the source): the position in the list
WithIds(shapes) ==
    [i \in 1..Len(shapes) |->
        [id |-> i, duration_min |-> shapes[i].duration_min,
         importance |-> shapes[i].importance, due |-> shapes[i].due,
         status |-> shapes[i].status]]

TaskLists(shapes) == {WithIds(sh) : sh \in SeqsUpTo(shapes, MaxTasks)}

NoLocals ==
    /\ todo = <<>> /\ segments = <<>> /\ total_available = 0
    /\ sched_limit = 0 /\ enriched = <<>> /\ ordered = <<>> /\ pos = 1
    /\ used = 0 /\ seg_idx = 0 /\ cursor = 0 /\ schedule = <<>>
    /\ overflow = <<>> /\ quad_map = EmptyDict /\ meta = EmptyDict
    /\ quadrant = ""

\* generate_schedule called with the default rules on packing inputs, with
\* the default buffer and with none
InitPacking ==
    /\ pc = "call"
    /\ tomorrow \in ReferenceDays
    /\ tasks \in TaskLists(PackingShapes(tomorrow))
    /\ blocks \in SeqsUpTo(BlockChoices, MaxBlocks)
    /\ importance_threshold = IMPORTANCE_THRESHOLD
    /\ urgent_days = URGENT_DAYS
    /\ buffer_ratio \in {0, BUFFER_RATIO}
    /\ ensure_q2 = ENSURE_Q2
    /\ NoLocals

\* generate_schedule called on ordering inputs with any buffer_ratio and
\* ensure_q2
InitOrdering ==
    /\ pc = "call"
    /\ tomorrow \in ReferenceDays
    /\ tasks \in TaskLists(OrderingShapes(tomorrow))
    /\ blocks \in {<< <<Time(9, 0), Time(10, 0)>> >>}
    /\ importance_threshold = IMPORTANCE_THRESHOLD
    /\ urgent_days = URGENT_DAYS
    /\ buffer_ratio \in {-50, BUFFER_RATIO, 90}
    /\ ensure_q2 \in {0, 1, 2}
    /\ NoLocals

\* compute_quadrant called directly on one task
InitClassify ==
    /\ pc = "classify"
    /\ tomorrow \in ReferenceDays
    /\ tasks \in {WithIds(<<sh>>) :
                    sh \in [duration_min : {30}, importance : 1..5,
                            due : {None} \cup {<<d>> : d \in 8..13},
                            status : {"todo"}]}
    /\ blocks = <<>>
    /\ importance_threshold \in 0..6
    /\ urgent_days \in -1..3
    /\ buffer_ratio = BUFFER_RATIO
    /\ ensure_q2 = ENSURE_Q2
    /\ NoLocals

Init == InitPacking \/ InitOrdering \/ InitClassify

(***************************************************************************)
(* compute_quadrant, called on its own (lines 316-318)                     *)
(***************************************************************************)
Classify ==
    /\ pc = "classify"
    /\ quadrant' = compute_quadrant(tasks[1], tomorrow, importance_threshold,
                                    urgent_days)
    /\ pc' = "classified"
    /\ UNCHANGED <<tasks, tomorrow, blocks, importance_threshold, urgent_days,
                   buffer_ratio, ensure_q2, todo, segments, total_available,
                   sched_limit, enriched, ordered, pos, used, seg_idx, cursor,
                   schedule, overflow, quad_map, meta>>

(***************************************************************************)
(* generate_schedule, one action per return and per loop iteration         *)
(***************************************************************************)
args == <<tasks, tomorrow, blocks, importance_threshold, urgent_days,
          buffer_ratio, ensure_q2, quadrant>>

\* lines 66-68: nothing to do
ReturnNoTodo ==
    /\ pc = "call"
    /\ Todo(tasks) = <<>>
    /\ todo' = Todo(tasks)
    /\ schedule' = <<>> /\ quad_map' = EmptyDict /\ meta' = EmptyDict
    /\ overflow' = <<>>
    /\ pc' = "done"
    /\ UNCHANGED <<args, segments, total_available, sched_limit, enriched,
                   ordered, pos, used, seg_idx, cursor>>

\* lines 70-78: no valid segment
ReturnNoSegments ==
    /\ pc = "call"
    /\ Todo(tasks) # <<>>
    /\ Segments(tomorrow, blocks) = <<>>
    /\ todo' = Todo(tasks)
    /\ segments' = <<>>
    /\ schedule' = <<>> /\ quad_map' = EmptyDict /\ meta' = EmptyDict
    /\ overflow' = Todo(tasks)
    /\ pc' = "done"
    /\ UNCHANGED <<args, total_available, sched_limit, enriched, ordered, pos,
                   used, seg_idx, cursor>>

\* lines 80-127: budget, placement order, cursor on the first segment
Prepare ==
    /\ pc = "call"
    /\ Todo(tasks) # <<>>
    /\ Segments(tomorrow, blocks) # <<>>
    /\ todo' = Todo(tasks)
    /\ segments' = Segments(tomorrow, blocks)
    /\ total_available' = TotalAvailable(segments')
    /\ sched_limit' = SchedLimit(total_available', buffer_ratio)
    /\ enriched' = Enriched(todo', tomorrow, importance_threshold, urgent_days)
    /\ ordered' = Ordered(enriched', ensure_q2)
    /\ pos' = 1
    /\ LET st == StartState(segments')
       IN  /\ used' = st.used
           /\ seg_idx' = st.seg_idx
           /\ cursor' = st.cursor
           /\ schedule' = st.schedule
           /\ overflow' = st.overflow
    /\ pc' = "loop"
    /\ UNCHANGED <<args, quad_map, meta>>

LoopState ==
    [used |-> used, seg_idx |-> seg_idx, cursor |-> cursor,
     schedule |-> schedule, overflow |-> overflow]

\* lines 129-166: the iteration of the for loop for ordered[pos]
Iterate ==
    /\ LET st == PlaceStep(LoopState, ordered[pos], segments, sched_limit)
       IN  /\ used' = st.used
           /\ seg_idx' = st.seg_idx
           /\ cursor' = st.cursor
           /\ schedule' = st.schedule
           /\ overflow' = st.overflow
    /\ pos' = pos + 1
    /\ UNCHANGED <<pc, args, todo, segments, total_available, sched_limit,
                   enriched, ordered, quad_map, meta>>

\* lines 132-134: the task does not fit the budget
OverBudget ==
    /\ pc = "loop"
    /\ pos <= Len(ordered)
    /\ used + ordered[pos].t.duration_min > sched_limit
    /\ Iterate

\* lines 136-161: the task fits the budget and a segment has room
Place ==
    /\ pc = "loop"
    /\ pos <= Len(ordered)
    /\ used + ordered[pos].t.duration_min <= sched_limit
    /\ FindRoom(segments, seg_idx, cursor, ordered[pos].t.duration_min).placed
    /\ Iterate

\* lines 136-166: the task fits the budget and no segment has room
NoRoom ==
    /\ pc = "loop"
    /\ pos <= Len(ordered)
    /\ used + ordered[pos].t.duration_min <= sched_limit
    /\ ~FindRoom(segments, seg_idx, cursor, ordered[pos].t.duration_min).placed
    /\ Iterate

\* lines 168-178
Return ==
    /\ pc = "loop"
    /\ pos > Len(ordered)
    /\ quad_map' = QuadMap(enriched)
    /\ meta' = Meta(total_available, sched_limit, used)
    /\ pc' = "done"
    /\ UNCHANGED <<args, todo, segments, total_available, sched_limit,
                   enriched, ordered, pos, used, seg_idx, cursor, schedule,
                   overflow>>

Next ==
    \/ Classify
    \/ ReturnNoTodo
    \/ ReturnNoSegments
    \/ Prepare
    \/ OverBudget
    \/ Place
    \/ NoRoom
    \/ Return

Spec == Init /\ [][Next]_vars

(***************************************************************************)
(* Properties                                                              *)
(***************************************************************************)
Returned == pc = "done"
\* the placement loop ran (generate_schedule returns a non-empty meta)
Planned == pc = "done" /\ DOMAIN meta # {}

Count(s, P(_)) == Cardinality({k \in 1..Len(s) : P(s[k])})

TaskOf(entry) == tasks[entry.task_id]

SegmentLength(k) == minutes_between(segments[k][1], segments[k][2])

QuadrantOf(t) ==
    compute_quadrant(t, tomorrow, importance_threshold, urgent_days)

Rank(q) == CHOOSE r \in 1..4 : Quadrants[r] = q

DueKey(t) == IF t.due = None THEN NO_DUE_KEY ELSE t.due[1]

\* a <= b for key pairs
KeyLeq(a, b) == a[1] < b[1] \/ (a[1] = b[1] /\ a[2] <= b[2])

\* C1: when generate_schedule has returned, every todo task is exactly once
\* in schedule (by task_id) or in overflow, no other task is in either, the
\* two lists together are as long as the todo list, and without a valid block
\* overflow is the whole todo list.
C1_Partition ==
    Returned =>
        /\ \A i \in 1..Len(tasks) :
              LET inSchedule == Count(schedule, LAMBDA en : en.task_id = tasks[i].id)
                  inOverflow == Count(overflow, LAMBDA t : t.id = tasks[i].id)
              IN  IF tasks[i].status = "todo"
                  THEN inSchedule + inOverflow = 1
                  ELSE inSchedule = 0 /\ inOverflow = 0
        /\ \A k \in 1..Len(schedule) : schedule[k].task_id \in 1..Len(tasks)
        /\ \A k \in 1..Len(overflow) :
              /\ overflow[k].id \in 1..Len(tasks)
              /\ overflow[k] = tasks[overflow[k].id]
        /\ Len(schedule) + Len(overflow) = Len(Todo(tasks))
        /\ (Todo(tasks) # <<>> /\ Segments(tomorrow, blocks) = <<>>)
              => (schedule = <<>> /\ overflow = Todo(tasks))

\* a run that placed one todo task, sent another to overflow
C1_Witness ==
    /\ Returned
    /\ Len(schedule) = 1
    /\ Len(overflow) = 1

\* C2: during the placement loop and in the returned meta, the durations of
\* the scheduled tasks add up to used, and
\* 0 <= used <= sched_limit <= total_available, whatever buffer_ratio is.
C2_Budget ==
    (pc = "loop" \/ Planned) =>
        /\ Sum([k \in 1..Len(schedule) |-> TaskOf(schedule[k]).duration_min]) = used
        /\ 0 <= used
        /\ used <= sched_limit
        /\ sched_limit <= total_available
        /\ Planned =>
              /\ meta.used_min = used
              /\ meta.sched_limit_min = sched_limit
              /\ meta.total_available_min = total_available

\* a negative buffer_ratio, the whole available time used
C2_Witness ==
    /\ Planned
    /\ buffer_ratio < 0
    /\ meta.used_min > 0
    /\ meta.used_min = meta.total_available_min

\* C3: no two entries of the schedule overlap, for any list of valid blocks.
C3_NoOverlap ==
    \A i, j \in 1..Len(schedule) :
        i < j => \/ schedule[i].end <= schedule[j].start
                 \/ schedule[j].end <= schedule[i].start

\* C4: every entry lies inside one input segment and lasts exactly the
\* task's duration_min minutes.
C4_InsideOneSegment ==
    \A k \in 1..Len(schedule) :
        /\ \E g \in 1..Len(segments) :
              /\ segments[g][1] <= schedule[k].start
              /\ schedule[k].end <= segments[g][2]
        /\ minutes_between(schedule[k].start, schedule[k].end)
              = TaskOf(schedule[k]).duration_min

\* an entry placed in the second of two segments given latest first
C4_Witness ==
    /\ Returned
    /\ Len(segments) = 2
    /\ segments[2][2] <= segments[1][1]
    /\ \E k \in 1..Len(schedule) : schedule[k].end <= segments[2][2]

\* q is the label the truth table gives task t
TableQuadrant(t, q) ==
    LET important == t.importance >= importance_threshold
        window    == IF urgent_days - 1 > 0 THEN urgent_days - 1 ELSE 0
        urgent    == t.due # None /\ t.due[1] <= tomorrow + window
    IN  /\ q \in {Q1, Q2, Q3, Q4}
        /\ (q = Q1) <=> (important /\ urgent)
        /\ (q = Q2) <=> (important /\ ~urgent)
        /\ (q = Q3) <=> (~important /\ urgent)
        /\ (q = Q4) <=> (~important /\ ~urgent)
        /\ (urgent_days = 1 /\ t.due = <<tomorrow + 1>>) => q \in {Q2, Q4}
        /\ t.due = None => q \in {Q2, Q4}

C6_Q2Scheduled ==
    (/\ Planned
     /\ ensure_q2 = 1
     /\ \E i \in 1..Len(enriched) :
           /\ enriched[i].q = Q2
           /\ enriched[i].t.duration_min <= sched_limit
           /\ \E g \in 1..Len(segments) :
                 enriched[i].t.duration_min <= SegmentLength(g))
    => \E k \in 1..Len(schedule) : schedule[k].quadrant = Q2

\* some segment has dur minutes in a row that no entry of sched occupies
FreeStretch(sched, dur) ==
    \E g \in 1..Len(segments) :
        \E x \in segments[g][1]..(segments[g][2] - dur) :
            \A k \in 1..Len(sched) :
                sched[k].end <= x \/ x + dur <= sched[k].start

\* C7: a task goes to overflow only if, at its turn, it exceeds the budget
\* or no segment has a free stretch of its duration.
C7_OverflowOnlyIfNoRoom ==
    [][(pc = "loop" /\ Len(overflow') > Len(overflow)) =>
          \/ used + ordered[pos].t.duration_min > sched_limit
          \/ ~FreeStretch(schedule, ordered[pos].t.duration_min)]_vars

\* clamp(buffer_ratio, 0, 0.8), in hundredths
Clamped(ratio) == IF ratio < 0 THEN 0 ELSE IF ratio > 80 THEN 80 ELSE ratio

\* C8: sched_limit = floor(total_available * (1 - clamp(buffer_ratio, 0, 0.8))).
C8_SchedLimit ==
    (pc = "loop" \/ Planned) =>
        sched_limit = (total_available * (100 - Clamped(buffer_ratio))) \div 100

\* task a may come before task b in the placement order
InOrder(a, b) ==
    /\ Rank(QuadrantOf(a)) <= Rank(QuadrantOf(b))
    /\ (QuadrantOf(a) = QuadrantOf(b) /\ QuadrantOf(a) # Q4) =>
          KeyLeq(<<DueKey(a), -a.importance>>, <<DueKey(b), -b.importance>>)
    /\ (QuadrantOf(a) = Q4 /\ QuadrantOf(b) = Q4) =>
          KeyLeq(<<-a.importance, DueKey(a)>>, <<-b.importance, DueKey(b)>>)

Chronological ==
    \A g \in 1..(Len(segments) - 1) : segments[g][2] <= segments[g + 1][1]

EnsureQ2Values == {-1, MaxTasks + 1}

====
